---- MODULE Spec2Model ----
(***************************************************************************)
(* Model of letta/llm_api/google_vertex.py: the translation between the    *)
(* OpenAI-style chat completion format and the Google AI (Vertex)          *)
(* contents/parts format.                                                  *)
(*                                                                         *)
(* The functions of the file are synchronous; each is an operator computed *)
(* as the code computes it, and an action applies it to inputs drawn by    *)
(* Init.  Python objects that a function mutates in place (the tools'      *)
(* parameter schemas, the response's function_call.args) are state.        *)
(*                                                                         *)
(*   SpecNormalizer : add_dummy_model_messages, to_google_ai               *)
(*   SpecTools      : convert_tools_to_google_ai_format                    *)
(*   SpecResponse   : convert_google_ai_response_to_chatcompletion and     *)
(*                    google_vertex_chat_completions_request               *)
(***************************************************************************)
EXTENDS Integers, Sequences, FiniteSets, TLC

VARIABLES
    op,                  \* which function the behaviour exercises
    messages,            \* add_dummy_model_messages: the argument
    openai_message_dict, \* to_google_ai: the argument
    norm_result,         \* outcome of the normalizer call, NotCalled before it
    tools,               \* convert_tools_to_google_ai_format: the argument, each
                         \* tool holding a reference to its parameters object
    schemas,             \* the parameters objects, by reference
    schemas0,            \* the parameters objects as they were given
    inner_thoughts_in_kwargs,
    tools_result,        \* outcome of the tools call
    response,            \* the provider's response object
    response0,           \* the response object as the provider delivered it
    input_messages,      \* convert_...: the argument (None when omitted)
    pull_inner_thoughts_from_args,
    result,              \* outcome of the first conversion of response
    result2,             \* outcome of a second conversion of the same object
    fresh,               \* next identifier get_tool_call_id / uuid4 hands out
    now                  \* get_utc_time

norm_vars == <<messages, openai_message_dict, norm_result>>
tools_vars == <<tools, schemas, schemas0, inner_thoughts_in_kwargs, tools_result>>
resp_vars == <<response, response0, input_messages, pull_inner_thoughts_from_args,
               result, result2, fresh, now>>
vars == <<op, norm_vars, tools_vars, resp_vars>>

(***************************************************************************)
(* Python values.  None and "no call yet" are records so that they compare *)
(* with every other record of the model.                                   *)
(***************************************************************************)
None == [some |-> FALSE]
Some(x) == [some |-> TRUE, v |-> x]

NotCalled == [status |-> "not called"]
Returned(x) == [status |-> "returned", value |-> x]
Raised(e) == [status |-> "raised", exc |-> e]

\* All sequences over S of length 0..n
SeqsUpTo(S, n) == UNION {[1..k -> S] : k \in 0..n}

(***************************************************************************)
(* Message Normalizer                                                      *)
(***************************************************************************)
MaxMessages == 4

TurnRoles == {"user", "model", "function", "tool"}

NON_USER_MSG_PREFIX == "[This is an automated system message hidden from the user] "

Turn(r, t) == [role |-> r, parts |-> <<[text |-> t]>>]

dummy_yield_message ==
    Turn("model", NON_USER_MSG_PREFIX \o "Function call returned, waiting for user response.")

\* line 30: the test that decides whether the dummy follows msgs[i]
NeedsDummyToolOnly(msgs, i) ==
    /\ msgs[i].role = "tool"
    /\ i + 1 <= Len(msgs)
    /\ msgs[i + 1].role = "user"

NeedsDummy(msgs, i) ==
    /\ msgs[i].role \in {"tool", "function"}
    /\ i + 1 <= Len(msgs)
    /\ msgs[i + 1].role = "user"

\* lines 27-31: the loop from position i on, messages_with_padding so far in acc
RECURSIVE PadFrom(_, _, _)
PadFrom(msgs, i, acc) ==
    IF i > Len(msgs) THEN acc
    ELSE PadFrom(msgs, i + 1,
                 IF NeedsDummy(msgs, i)
                 THEN Append(Append(acc, msgs[i]), dummy_yield_message)
                 ELSE Append(acc, msgs[i]))

add_dummy_model_messages(msgs) == PadFrom(msgs, 1, <<>>)

\* to_google_ai ----------------------------------------------------------
CanonicalRoles == {"user", "assistant", "tool", "function", "system", "model"}

\* content of a canonical message: a string, None, or a list of parts
StrContent(s) == [type |-> "str", v |-> s]
NoneContent == [type |-> "NoneType"]
ListContent(l) == [type |-> "list", v |-> l]

Contents ==
    {StrContent("hello"), StrContent(""), NoneContent,
     ListContent(<<>>), ListContent(<<[type |-> "text", text |-> "hello"]>>)}

\* lines 41-55: the dict the branch of the role builds
google_ai_message_dict(msg) ==
    [role |-> CASE msg.role = "user" -> "user"
                [] msg.role = "assistant" -> "model"
                [] msg.role = "tool" -> "function",
     parts |-> <<[text |-> msg.content]>>]

\* lines 37-57.  The branches assign google_ai_message_dict and the body ends
\* there: no return statement follows, so a call that does not raise
\* evaluates to None.
to_google_ai(msg) ==
    IF msg.content.type = "list" THEN Raised("AssertionError")
    ELSE IF msg.role \in {"user", "assistant", "tool"}
         THEN LET built == google_ai_message_dict(msg) IN Returned(None)
         ELSE Raised("ValueError")

NormInit ==
    /\ op \in {"add_dummy_model_messages", "to_google_ai"}
    /\ norm_result = NotCalled
    /\ IF op = "add_dummy_model_messages"
       THEN /\ messages \in SeqsUpTo({Turn(r, "t") : r \in TurnRoles}, MaxMessages)
            /\ openai_message_dict = None
       ELSE /\ messages = <<>>
            /\ openai_message_dict \in [role : CanonicalRoles, content : Contents]

CallAddDummy ==
    /\ op = "add_dummy_model_messages"
    /\ norm_result = NotCalled
    /\ norm_result' = Returned(add_dummy_model_messages(messages))
    /\ UNCHANGED <<op, messages, openai_message_dict, tools_vars, resp_vars>>

CallToGoogleAi ==
    /\ op = "to_google_ai"
    /\ norm_result = NotCalled
    /\ norm_result' = to_google_ai(openai_message_dict)
    /\ UNCHANGED <<op, messages, openai_message_dict, tools_vars, resp_vars>>


(***************************************************************************)
(* Tool Schema Translator                                                  *)
(***************************************************************************)
MaxTools == 2

INNER_THOUGHTS_KWARG == "inner_thoughts"
INNER_THOUGHTS_KWARG_DESCRIPTION == "Deep inner monologue private to you only."

ParamNames == {"location", "description"}
LowerTypes == {"string", "integer"}

\* str.upper on the type names of the model
Upper(s) ==
    CASE s = "string" -> "STRING"
      [] s = "integer" -> "INTEGER"
      [] s = "object" -> "OBJECT"
      [] OTHER -> s

Range(f) == {f[x] : x \in DOMAIN f}

\* A parameters object as a tool descriptor carries it
Properties == UNION {[D -> [type : LowerTypes, description : {"d"}]] : D \in SUBSET ParamNames}

RequiredOf(props) ==
    {SelectSeq(<<"location", "description">>, LAMBDA n : n \in R) : R \in SUBSET (DOMAIN props)}

Schemas ==
    UNION {[type : {"object"}, properties : {p}, required : RequiredOf(p)] : p \in Properties}

\* The ways n tools refer to parameters objects: tool 1 to object 1, each later
\* tool to an object already referred to or to the next new one
Refs(n) ==
    {r \in [1..n -> 1..n] :
        \A k \in 1..n : \A j \in 1..(r[k] - 1) : \E i \in 1..(k - 1) : r[i] = j}

\* lines 119-120: every property's type upper-cased in place
UpperPropertiesSkipped(props) == props

UpperProperties(props) ==
    [n \in DOMAIN props |-> [props[n] EXCEPT !.type = Upper(props[n].type)]]

\* lines 125-128
AddInnerThoughts(props) ==
    [n \in DOMAIN props \cup {INNER_THOUGHTS_KWARG} |->
        IF n = INNER_THOUGHTS_KWARG
        THEN [type |-> "STRING", description |-> INNER_THOUGHTS_KWARG_DESCRIPTION]
        ELSE props[n]]

\* lines 118-129: one iteration of the loop, on the object func["parameters"]
TranslateParameters(params, mode) ==
    LET cased == [params EXCEPT !.type = "OBJECT",
                                !.properties = UpperProperties(params.properties)]
    IN IF mode
       THEN [cased EXCEPT !.properties = AddInnerThoughts(cased.properties),
                          !.required = Append(cased.required, INNER_THOUGHTS_KWARG)]
       ELSE cased

\* lines 107-114: the dicts hold the tools' own parameters objects, not copies
function_list(ts) ==
    [k \in 1..Len(ts) |->
        [name |-> ts[k].name, description |-> ts[k].description, parameters |-> ts[k].parameters]]

\* lines 117-129: the loop from function i on, over the objects in heap
RECURSIVE TranslateFrom(_, _, _, _)
TranslateFrom(fl, i, heap, mode) ==
    IF i > Len(fl) THEN heap
    ELSE TranslateFrom(fl, i + 1,
             [heap EXCEPT ![fl[i].parameters] = TranslateParameters(heap[fl[i].parameters], mode)],
             mode)

\* lines 61-131: the returned value and the parameters objects after the call
convert_tools_to_google_ai_format(ts, heap, mode) ==
    [value |-> <<[functionDeclarations |-> function_list(ts)]>>,
     heap |-> TranslateFrom(function_list(ts), 1, heap, mode)]

ToolsInit ==
    /\ op = "convert_tools_to_google_ai_format"
    /\ inner_thoughts_in_kwargs \in BOOLEAN
    /\ \E n \in 0..MaxTools : \E r \in Refs(n) :
          /\ tools = [k \in 1..n |-> [name |-> "f", description |-> "d", parameters |-> r[k]]]
          /\ schemas \in [Range(r) -> Schemas]
    /\ schemas0 = schemas
    /\ tools_result = NotCalled

CallConvertTools ==
    /\ op = "convert_tools_to_google_ai_format"
    /\ tools_result = NotCalled
    /\ LET out == convert_tools_to_google_ai_format(tools, schemas, inner_thoughts_in_kwargs)
       IN /\ tools_result' = Returned(out.value)
          /\ schemas' = out.heap
    /\ UNCHANGED <<op, tools, schemas0, inner_thoughts_in_kwargs, norm_vars, resp_vars>>

\* The parameters object of the k-th declaration of the result
Declared(k) == schemas[tools_result.value[1].functionDeclarations[k].parameters]
Given(k) == schemas0[tools[k].parameters]

(***************************************************************************)
(* Response Interpreter and Usage Reconciler                               *)
(***************************************************************************)
MaxCandidates == 2
MaxParts == 2          \* parts of a response, over all its candidates

ModelName == "gemini-pro"

\* JSON values of a function call's arguments
JStr(s) == [json |-> "string", v |-> s]
JNum(n) == [json |-> "number", v |-> n]
JNull == [json |-> "null"]

Item(k, v) == [key |-> k, val |-> v]

\* function_call.args where it is a dict (its items in insertion order): the
\* reserved key missing, null, or holding the reasoning text
ArgsChoices ==
    {Some(<<Item("x", JNum("1"))>>),
     Some(<<Item(INNER_THOUGHTS_KWARG, JNull), Item("x", JNum("1"))>>),
     Some(<<Item(INNER_THOUGHTS_KWARG, JStr("thinking...")), Item("x", JNum("1"))>>)}

TextPart(t) == [function_call |-> None, text |-> Some(t)]
CallPart(n, a) == [function_call |-> Some([name |-> n, args |-> a]), text |-> None]

PartChoices == {TextPart("hi")} \cup {CallPart("send_message", a) : a \in ArgsChoices}

FinishReasons == {"STOP", "MAX_TOKENS", "SAFETY", "RECITATION", "OTHER"}

Candidate(r, f, ps) == [content |-> [role |-> r, parts |-> ps], finish_reason |-> f]

\* Candidates of k parts.  The parts of a candidate whose role is not "model"
\* are never read, so one such candidate stands for all of them
CandidatesWith(k) ==
    {Candidate("model", f, ps) : f \in FinishReasons, ps \in [1..k -> PartChoices]}
    \cup (IF k = 1 THEN {Candidate("user", "STOP", <<TextPart("hi")>>)} ELSE {})

\* Sequences of n candidates, of one part or more each and at most budget
\* parts in all
RECURSIVE CandidateSeqs(_, _)
CandidateSeqs(n, budget) ==
    IF n = 0 THEN {<<>>}
    ELSE UNION {{<<c>> \o rest : c \in CandidatesWith(k), rest \in CandidateSeqs(n - 1, budget - k)}
                : k \in 1..budget}

UsageMetadata(p, c, t) ==
    [prompt_token_count |-> p, candidates_token_count |-> c, total_token_count |-> t]

\* dict helpers ------------------------------------------------------------
HasKey(items, k) == \E i \in 1..Len(items) : items[i].key = k

Lookup(items, k) == items[CHOOSE i \in 1..Len(items) : items[i].key = k].val

\* line 188: dict.pop(k) of a key the dict holds: the value, and the dict after
DictGet(items, k) == [value |-> Lookup(items, k), rest |-> items]

DictPop(items, k) ==
    [value |-> Lookup(items, k), rest |-> SelectSeq(items, LAMBDA it : it.key # k)]

\* json_dumps of a dict: the text, as its sequence of tokens
JsonValue(v) ==
    CASE v.json = "string" -> "\"" \o v.v \o "\""
      [] v.json = "number" -> v.v
      [] v.json = "null" -> "null"

RECURSIVE JsonItems(_, _)
JsonItems(items, i) ==
    IF i > Len(items) THEN <<>>
    ELSE (IF i > 1 THEN <<",">> ELSE <<>>)
         \o <<"\"" \o items[i].key \o "\"", ":", JsonValue(items[i].val)>>
         \o JsonItems(items, i + 1)

json_dumps(items) == <<"{">> \o JsonItems(items, 1) \o <<"}">>

\* clean_json_string_extra_backslash: doubled backslashes are collapsed
RECURSIVE clean_json_string_extra_backslash(_)
clean_json_string_extra_backslash(toks) ==
    IF Len(toks) < 2 THEN toks
    ELSE IF toks[1] = "\\" /\ toks[2] = "\\"
         THEN clean_json_string_extra_backslash(Tail(toks))
         ELSE <<toks[1]>> \o clean_json_string_extra_backslash(Tail(toks))

\* count_tokens: a function of the text alone
count_tokens(toks) == Len(toks)

\* json_dumps(input_messages)
RECURSIVE DumpTurns(_, _)
DumpTurns(msgs, i) ==
    IF i > Len(msgs) THEN <<>>
    ELSE <<msgs[i].role, msgs[i].parts[1].text>> \o DumpTurns(msgs, i + 1)

\* json_dumps(openai_response_message.model_dump())
DumpMessage(m) ==
    <<m.role, IF m.content.some THEN m.content.v ELSE "null">>
    \o (IF m.tool_calls.some
        THEN <<"call_id", m.tool_calls.v[1].type, m.tool_calls.v[1].function.name>>
             \o m.tool_calls.v[1].function.arguments
        ELSE <<"null">>)

\* The conversion's locals while it runs: exc is the exception in flight, if
\* any; candidates are response.candidates (args dicts are changed in place);
\* message is openai_response_message, unbound until a part has been converted
Locals(cands, id) ==
    [exc |-> None, choices |-> <<>>, index |-> 0, candidates |-> cands,
     message |-> None, fresh |-> id]

Raise(st, e) == [st EXCEPT !.exc = Some(e)]

\* lines 184-191: the inner thoughts taken out of the dict function_args
PullInnerThoughtsLenient(items, mode) ==
    IF ~mode THEN [exc |-> None, inner_thoughts |-> None, args |-> items]
    ELSE IF ~HasKey(items, INNER_THOUGHTS_KWARG)
    THEN [exc |-> None, inner_thoughts |-> Some(""), args |-> items]
    ELSE LET popped == DictPop(items, INNER_THOUGHTS_KWARG)
         IN IF popped.value = JNull
            THEN [exc |-> Some("AssertionError"), inner_thoughts |-> None, args |-> popped.rest]
            ELSE [exc |-> None, inner_thoughts |-> Some(popped.value.v), args |-> popped.rest]

PullInnerThoughts(items, mode) ==
    IF ~mode THEN [exc |-> None, inner_thoughts |-> None, args |-> items]
    ELSE IF ~HasKey(items, INNER_THOUGHTS_KWARG)
    THEN [exc |-> Some("AssertionError"), inner_thoughts |-> None, args |-> items]
    ELSE LET popped == DictPop(items, INNER_THOUGHTS_KWARG)
         IN IF popped.value = JNull
            THEN [exc |-> Some("AssertionError"), inner_thoughts |-> None, args |-> popped.rest]
            ELSE [exc |-> None, inner_thoughts |-> Some(popped.value.v), args |-> popped.rest]

\* lines 194-207
CallMessage(inner_thoughts, id, function_name, function_args) ==
    [role |-> "assistant",
     content |-> inner_thoughts,
     tool_calls |-> Some(<<[id |-> id,
                            type |-> "function",
                            function |-> [name |-> function_name,
                                          arguments |-> clean_json_string_extra_backslash(
                                                            json_dumps(function_args))]]>>)]

\* lines 212-218
TextMessage(text) == [role |-> "assistant", content |-> text, tool_calls |-> None]

\* lines 225-239: None stands for the ValueError of the last branch
MapFinishReasonAlwaysStop(finish_reason, message) ==
    CASE finish_reason = "STOP" -> Some("stop")
      [] finish_reason = "MAX_TOKENS" -> Some("length")
      [] finish_reason = "SAFETY" -> Some("content_filter")
      [] finish_reason = "RECITATION" -> Some("content_filter")
      [] OTHER -> None

MapFinishReason(finish_reason, message) ==
    CASE finish_reason = "STOP" ->
            IF message.tool_calls.some /\ Len(message.tool_calls.v) > 0
            THEN Some("function_call") ELSE Some("stop")
      [] finish_reason = "MAX_TOKENS" -> Some("length")
      [] finish_reason = "SAFETY" -> Some("content_filter")
      [] finish_reason = "RECITATION" -> Some("content_filter")
      [] OTHER -> None

\* line 244: the index a Choice gets; p is the part's position in its candidate
ChoiceIndexPerCandidate(index, p) == p - 1

ChoiceIndex(index, p) == index

\* lines 225-248: the Choice of message appended, or the ValueError
Emit(st, c, p, message) ==
    LET openai_finish_reason == MapFinishReason(st.candidates[c].finish_reason, message)
    IN IF ~openai_finish_reason.some
       THEN Raise([st EXCEPT !.message = Some(message)], "ValueError")
       ELSE [st EXCEPT !.message = Some(message),
                       !.choices = Append(@, [finish_reason |-> openai_finish_reason.v,
                                              index |-> ChoiceIndex(st.index, p),
                                              message |-> message]),
                       !.index = @ + 1]

\* lines 176-248: one iteration of the loop over parts
ConvertPart(st, c, p, mode) ==
    LET response_message == st.candidates[c].content.parts[p]
    IN IF response_message.function_call.some
       THEN LET function_call == response_message.function_call.v
            IN IF ~function_call.args.some
               THEN Raise(st, "AssertionError")
               ELSE LET pulled == PullInnerThoughts(function_call.args.v, mode)
                        after == [st EXCEPT
                                    !.candidates[c].content.parts[p].function_call.v.args.v = pulled.args]
                    IN IF pulled.exc.some
                       THEN Raise(after, pulled.exc.v)
                       ELSE Emit([after EXCEPT !.fresh = @ + 1], c, p,
                                 CallMessage(pulled.inner_thoughts, st.fresh,
                                             function_call.name, pulled.args))
       ELSE Emit(st, c, p, TextMessage(response_message.text))

RECURSIVE PartsFrom(_, _, _, _)
PartsFrom(st, c, p, mode) ==
    IF st.exc.some \/ p > Len(st.candidates[c].content.parts) THEN st
    ELSE PartsFrom(ConvertPart(st, c, p, mode), c, p + 1, mode)

\* lines 165-248: the loop over candidates, from candidate c on
RECURSIVE CandidatesFrom(_, _, _)
CandidatesFrom(st, c, mode) ==
    IF st.exc.some \/ c > Len(st.candidates) THEN st
    ELSE IF st.candidates[c].content.role # "model"
         THEN Raise(st, "AssertionError")
         ELSE CandidatesFrom(PartsFrom(st, c, 1, mode), c + 1, mode)

\* lines 266-275
EstimatedUsageTotalIsPrompt(msgs, message) ==
    LET prompt_tokens == count_tokens(DumpTurns(msgs, 1))
        completion_tokens == count_tokens(DumpMessage(message))
    IN [prompt_tokens |-> prompt_tokens,
        completion_tokens |-> completion_tokens,
        total_tokens |-> prompt_tokens]

EstimatedUsage(msgs, message) ==
    LET prompt_tokens == count_tokens(DumpTurns(msgs, 1))
        completion_tokens == count_tokens(DumpMessage(message))
        total_tokens == prompt_tokens + completion_tokens
    IN [prompt_tokens |-> prompt_tokens,
        completion_tokens |-> completion_tokens,
        total_tokens |-> total_tokens]

\* lines 259-264
NativeUsage(usage_metadata) ==
    [prompt_tokens |-> usage_metadata.prompt_token_count,
     completion_tokens |-> usage_metadata.candidates_token_count,
     total_tokens |-> usage_metadata.total_token_count]

\* lines 259-275: the usage, or the exception
Usage(usage_metadata, msgs, st) ==
    IF usage_metadata.some THEN Returned(NativeUsage(usage_metadata.v))
    ELSE IF ~msgs.some THEN Raised("AssertionError")
    ELSE IF ~st.message.some THEN Raised("UnboundLocalError")
    ELSE Returned(EstimatedUsage(msgs.v, st.message.v))

\* lines 134-286: the outcome, the response object after the call and the next
\* unused identifier.  An exception leaves the function with no value: the
\* handler of line 285 re-raises what it catches.
convert_google_ai_response_to_chatcompletion(resp, model, msgs, mode, id, time) ==
    LET st == CandidatesFrom(Locals(resp.candidates, id), 1, mode)
        usage == Usage(resp.usage_metadata, msgs, st)
        after == [resp EXCEPT !.candidates = st.candidates]
    IN IF st.exc.some
       THEN [outcome |-> Raised(st.exc.v), response |-> after, fresh |-> st.fresh]
       ELSE IF usage.status = "raised"
       THEN [outcome |-> usage, response |-> after, fresh |-> st.fresh]
       ELSE [outcome |-> Returned([id |-> st.fresh,
                                   choices |-> st.choices,
                                   model |-> model,
                                   created |-> time,
                                   usage |-> usage.value]),
             response |-> after,
             fresh |-> st.fresh + 1]

\* lines 314-346, the provider's answer being resp: the conversion is given the
\* padded contents, and what it raises is raised again
google_vertex_chat_completions_request(model, contents, add_postfunc, mode, resp, id, time) ==
    LET padded == IF add_postfunc
                  THEN add_dummy_model_messages(contents) ELSE contents
    IN [call |-> convert_google_ai_response_to_chatcompletion(
                     resp, model, Some(padded), mode, id, time),
        contents |-> padded]

UsageChoices == {None, Some(UsageMetadata(1, 1, 3))}

ContentsChoices == {None, Some(<<Turn("function", "t"), Turn("user", "t")>>)}

RespInit ==
    /\ op = "convert_google_ai_response_to_chatcompletion"
    /\ \E n \in 0..MaxCandidates : \E cs \in CandidateSeqs(n, MaxParts) : \E u \in UsageChoices :
          response = [candidates |-> cs, usage_metadata |-> u]
    /\ response0 = response
    /\ input_messages \in ContentsChoices
    /\ response.usage_metadata.some => input_messages.some
    /\ pull_inner_thoughts_from_args \in BOOLEAN
    /\ result = NotCalled
    /\ result2 = NotCalled
    /\ fresh = 0
    /\ now = 0

\* convert_google_ai_response_to_chatcompletion called on the response
CallConvert ==
    /\ op = "convert_google_ai_response_to_chatcompletion"
    /\ result = NotCalled
    /\ LET call == convert_google_ai_response_to_chatcompletion(
                       response, ModelName, input_messages,
                       pull_inner_thoughts_from_args, fresh, now)
       IN /\ result' = call.outcome
          /\ response' = call.response
          /\ fresh' = call.fresh
    /\ now' = now + 1
    /\ UNCHANGED <<op, response0, input_messages, pull_inner_thoughts_from_args, result2,
                   norm_vars, tools_vars>>

\* google_vertex_chat_completions_request, the provider answering with response
CallRequest ==
    /\ op = "convert_google_ai_response_to_chatcompletion"
    /\ result = NotCalled
    /\ input_messages.some
    /\ \E add_postfunc_model_messages \in BOOLEAN :
          LET req == google_vertex_chat_completions_request(
                         ModelName, input_messages.v, add_postfunc_model_messages,
                         pull_inner_thoughts_from_args, response, fresh, now)
          IN /\ result' = req.call.outcome
             /\ response' = req.call.response
             /\ fresh' = req.call.fresh
             /\ input_messages' = Some(req.contents)
    /\ op' = "google_vertex_chat_completions_request"
    /\ now' = now + 1
    /\ UNCHANGED <<response0, pull_inner_thoughts_from_args, result2, norm_vars, tools_vars>>

\* The same response object converted once more, with the same arguments
ConvertAgain ==
    /\ op = "convert_google_ai_response_to_chatcompletion"
    /\ result # NotCalled
    /\ result2 = NotCalled
    /\ LET call == convert_google_ai_response_to_chatcompletion(
                       response, ModelName, input_messages,
                       pull_inner_thoughts_from_args, fresh, now)
       IN /\ result2' = call.outcome
          /\ response' = call.response
          /\ fresh' = call.fresh
    /\ now' = now + 1
    /\ UNCHANGED <<op, response0, input_messages, pull_inner_thoughts_from_args, result,
                   norm_vars, tools_vars>>


(***************************************************************************)
(* Specifications                                                          *)
(***************************************************************************)
NormIdle ==
    /\ messages = <<>>
    /\ openai_message_dict = None
    /\ norm_result = NotCalled

ToolsIdle ==
    /\ tools = <<>>
    /\ schemas = <<>>
    /\ schemas0 = <<>>
    /\ inner_thoughts_in_kwargs = TRUE
    /\ tools_result = NotCalled

RespIdle ==
    /\ response = None
    /\ response0 = None
    /\ input_messages = None
    /\ pull_inner_thoughts_from_args = TRUE
    /\ result = NotCalled
    /\ result2 = NotCalled
    /\ fresh = 0
    /\ now = 0

NormalizerInit == NormInit /\ ToolsIdle /\ RespIdle
NormalizerNext == CallAddDummy \/ CallToGoogleAi
SpecNormalizer == NormalizerInit /\ [][NormalizerNext]_vars

TranslatorInit == ToolsInit /\ NormIdle /\ RespIdle
TranslatorNext == CallConvertTools
SpecTools == TranslatorInit /\ [][TranslatorNext]_vars

ResponseInit == RespInit /\ NormIdle /\ ToolsIdle
ResponseNext == CallConvert \/ CallRequest \/ ConvertAgain
SpecResponse == ResponseInit /\ [][ResponseNext]_vars

(***************************************************************************)
(* Properties                                                              *)
(***************************************************************************)
Called(r) == r.status # "not called"
DidReturn(r) == r.status = "returned"
DidRaise(r) == r.status = "raised"

\* ---- Message Normalizer ----
FunctionThenUser(msgs) ==
    \E i \in 1..(Len(msgs) - 1) :
        msgs[i].role \in {"function", "tool"} /\ msgs[i + 1].role = "user"

\* C1: whatever the turns given to add_dummy_model_messages, the sequence it
\* returns has no turn of role function (or tool) directly followed by a turn
\* of role user.
C1_NoFunctionThenUser ==
    (op = "add_dummy_model_messages" /\ DidReturn(norm_result))
        => ~FunctionThenUser(norm_result.value)

C1_Witness ==
    /\ op = "add_dummy_model_messages"
    /\ DidReturn(norm_result)
    /\ FunctionThenUser(messages)
    /\ Len(norm_result.value) > Len(messages)

\* C10: for a message whose content is not a list, to_google_ai returns the
\* turn {role, parts} with the role mapped user->user, assistant->model,
\* tool->function and one text part holding the content; for any other role
\* it raises.
C10_SupportedRoleReturnsTurn ==
    (op = "to_google_ai" /\ Called(norm_result) /\ openai_message_dict.content.type # "list")
        => LET role == openai_message_dict.role
               text == openai_message_dict.content
           IN CASE role = "user" -> norm_result = Returned(Turn("user", text))
                [] role = "assistant" -> norm_result = Returned(Turn("model", text))
                [] role = "tool" -> norm_result = Returned(Turn("function", text))
                [] OTHER -> DidRaise(norm_result)

\* ---- Tool Schema Translator ----
Occurrences(seq, x) == Cardinality({i \in 1..Len(seq) : seq[i] = x})

Lower(s) ==
    CASE s = "STRING" -> "string"
      [] s = "INTEGER" -> "integer"
      [] OTHER -> "not upper case"

\* C7: after convert_tools_to_google_ai_format in reasoning-in-arguments mode,
\* every declaration has the reserved key once in properties and once in
\* required, also when several tools were built from one parameters object.
C7_KeyAddedOncePerDeclaration ==
    (DidReturn(tools_result) /\ inner_thoughts_in_kwargs)
        => \A k \in 1..Len(tools) :
              /\ INNER_THOUGHTS_KWARG \in DOMAIN Declared(k).properties
              /\ Occurrences(Declared(k).required, INNER_THOUGHTS_KWARG) = 1

\* C8: after convert_tools_to_google_ai_format every declaration has
\* parameters.type OBJECT, every property of the descriptor has its type in
\* upper case (lower-casing it gives the original back), and the reserved
\* parameter is in required, as the last element, exactly when
\* reasoning-in-arguments mode was enabled.
C8_SchemaRoundTrip ==
    DidReturn(tools_result)
        => /\ Len(tools_result.value[1].functionDeclarations) = Len(tools)
           /\ \A k \in 1..Len(tools) :
                 /\ Declared(k).type = "OBJECT"
                 /\ \A n \in DOMAIN Given(k).properties :
                       /\ n \in DOMAIN Declared(k).properties
                       /\ Lower(Declared(k).properties[n].type) = Given(k).properties[n].type
                 /\ (INNER_THOUGHTS_KWARG \in Range(Declared(k).required))
                        <=> inner_thoughts_in_kwargs
                 /\ inner_thoughts_in_kwargs
                        => Declared(k).required[Len(Declared(k).required)] = INNER_THOUGHTS_KWARG

C8_Witness ==
    /\ DidReturn(tools_result)
    /\ inner_thoughts_in_kwargs
    /\ Len(tools) = 2
    /\ \A k \in 1..2 : Given(k).properties # <<>> /\ Given(k).required # <<>>

\* ---- Response Interpreter ----
\* The parts of the delivered response in candidate order, then part order
RECURSIVE PartsInOrder(_, _)
PartsInOrder(cands, c) ==
    IF c > Len(cands) THEN <<>>
    ELSE [p \in 1..Len(cands[c].content.parts) |->
             [finish_reason |-> cands[c].finish_reason, part |-> cands[c].content.parts[p]]]
         \o PartsInOrder(cands, c + 1)

Delivered == PartsInOrder(response0.candidates, 1)

IsCall(d) == d.part.function_call.some
CallArgs(d) == d.part.function_call.v.args.v
HasReasoning(d) == IsCall(d) /\ HasKey(CallArgs(d), INNER_THOUGHTS_KWARG)

ToolCalls(choice) == IF choice.message.tool_calls.some THEN choice.message.tool_calls.v ELSE <<>>

C3_FinishReasonTable ==
    /\ DidReturn(result)
          => \A k \in 1..Len(Delivered) :
                LET given == Delivered[k].finish_reason
                    choice == result.value.choices[k]
                IN /\ given \in {"STOP", "MAX_TOKENS", "SAFETY", "RECITATION"}
                   /\ (given = "STOP" /\ Len(ToolCalls(choice)) >= 1)
                         => choice.finish_reason = "function_call"
                   /\ (given = "STOP" /\ Len(ToolCalls(choice)) = 0)
                         => choice.finish_reason = "stop"
                   /\ given = "MAX_TOKENS" => choice.finish_reason = "length"
                   /\ given \in {"SAFETY", "RECITATION"}
                         => choice.finish_reason = "content_filter"
    /\ (Called(result) /\ \E k \in 1..Len(Delivered) : Delivered[k].finish_reason = "OTHER")
          => DidRaise(result)

C3_Witness ==
    /\ DidReturn(result)
    /\ Len(result.value.choices) = 2
    /\ result.value.choices[1].finish_reason = "function_call"
    /\ result.value.choices[2].finish_reason = "content_filter"

\* C4 as claimed: every usage of a returned response has
\* total_tokens = prompt_tokens + completion_tokens, native or estimated.
C4_UsageConservation ==
    DidReturn(result)
        => result.value.usage.total_tokens
              = result.value.usage.prompt_tokens + result.value.usage.completion_tokens

\* C4 as amended: an estimated usage has total_tokens = prompt_tokens +
\* completion_tokens; a native usage is the three counters of the response's
\* usage metadata, unchanged.
C4_EstimateSumsNativeCopied ==
    DidReturn(result)
        => LET usage == result.value.usage
               native == response0.usage_metadata
           IN IF native.some
              THEN /\ usage.prompt_tokens = native.v.prompt_token_count
                   /\ usage.completion_tokens = native.v.candidates_token_count
                   /\ usage.total_tokens = native.v.total_token_count
              ELSE usage.total_tokens = usage.prompt_tokens + usage.completion_tokens

C4_Witness ==
    /\ DidReturn(result)
    /\ ~response0.usage_metadata.some
    /\ result.value.usage.total_tokens > result.value.usage.prompt_tokens

\* C5: in reasoning-in-arguments mode a function-call part without the
\* reserved key, in any candidate, makes the conversion raise; the caller gets
\* the exception and no response, whatever was built from earlier parts.
C5_MissingReasoningRaises ==
    (pull_inner_thoughts_from_args /\ Called(result)
     /\ \E k \in 1..Len(Delivered) : IsCall(Delivered[k]) /\ ~HasReasoning(Delivered[k]))
        => /\ DidRaise(result)
           /\ DOMAIN result = {"status", "exc"}

C5_Witness ==
    /\ pull_inner_thoughts_from_args
    /\ op = "google_vertex_chat_completions_request"
    /\ DidRaise(result)
    /\ result.exc = "AssertionError"
    /\ Len(Delivered) = 2
    /\ Delivered[1].finish_reason = "STOP"
    /\ Delivered[1].part.text.some
    /\ IsCall(Delivered[2]) /\ ~HasReasoning(Delivered[2])
    /\ \A c \in 1..Len(response0.candidates) : response0.candidates[c].content.role = "model"

\* C6: the k-th Choice, counted from 0 in candidate order then part order,
\* has index k; there is one Choice per part.
C6_ChoiceIndexIsPosition ==
    DidReturn(result)
        => /\ Len(result.value.choices) = Len(Delivered)
           /\ \A k \in 1..Len(result.value.choices) : result.value.choices[k].index = k - 1

C6_Witness ==
    /\ DidReturn(result)
    /\ Len(response0.candidates) = 2
    /\ Len(result.value.choices) = 2

\* What two conversions are compared on: everything but the generated
\* identifiers and the timestamp
Content(r) ==
    IF DidReturn(r)
    THEN [status |-> "returned",
          choices |-> [k \in 1..Len(r.value.choices) |->
                          [finish_reason |-> r.value.choices[k].finish_reason,
                           index |-> r.value.choices[k].index,
                           role |-> r.value.choices[k].message.role,
                           content |-> r.value.choices[k].message.content,
                           calls |-> [i \in 1..Len(ToolCalls(r.value.choices[k])) |->
                                         [type |-> ToolCalls(r.value.choices[k])[i].type,
                                          function |-> ToolCalls(r.value.choices[k])[i].function]]]],
          usage |-> r.value.usage]
    ELSE [status |-> r.status, exc |-> r.exc]

\* C9: a conversion leaves the response object as it was, and a second
\* conversion of the same object with the same arguments has the outcome of
\* the first.
C9_ConversionRepeatable ==
    /\ Called(result) => response = response0
    /\ Called(result2) => Content(result2) = Content(result)

====
